---- MODULE Spec2Model ----
(***************************************************************************)
(* do2org: a Day One JSON export is decoded into a Journal, grouped into a *)
(* year -> month -> day tree (time_tree::Root) and printed as an org-mode  *)
(* outline.  Source: src/src/main.rs.                                      *)
(*                                                                         *)
(* Text is modelled as TLA+ strings, character by character (Len, SubSeq   *)
(* and \o).  A code point outside ASCII is written as a stand-in in        *)
(* braces, "{U+" four to six hexadecimal digits "}": "{U+2014}" is the em  *)
(* dash, "{U+00A0}" the no-break space; "{0xFF}" is a byte that is not     *)
(* valid UTF-8.  The text "{U+" stands for nothing else.  Option<T> is a   *)
(* sequence of length 0 (None) or 1 (Some).  A function that can panic     *)
(* returns a record [tag, val] with tag "Panic" and the message as val.    *)
(***************************************************************************)
EXTENDS Integers, Sequences, FiniteSets, TLC

None == <<>>
Some(x) == <<x>>
IsSome(o) == Len(o) = 1
Unwrap(o) == o[1]
UnwrapOr(o, default) == IF IsSome(o) THEN Unwrap(o) ELSE default

Ret(v) == [tag |-> "Ok", val |-> v]
Panic(msg) == [tag |-> "Panic", val |-> msg]

(***************************************************************************)
(* String helpers: what the std and regex calls of the source do.          *)
(***************************************************************************)
Char(s, i) == SubSeq(s, i, i)

StartsWithAt(s, i, p) ==
    /\ i + Len(p) - 1 <= Len(s)
    /\ SubSeq(s, i, i + Len(p) - 1) = p

Min(S) == CHOOSE x \in S : \A y \in S : x <= y

\* First index j >= i with s[j] = c, or Len(s) + 1 when there is none.
IndexFrom(s, i, c) ==
    LET at == {j \in i..Len(s) : Char(s, j) = c}
    IN IF at = {} THEN Len(s) + 1 ELSE Min(at)

RECURSIVE Dec(_)
Dec(n) ==
    IF n < 0 THEN "-" \o Dec(0 - n)
    ELSE IF n < 10 THEN Char("0123456789", n + 1)
    ELSE Dec(n \div 10) \o Char("0123456789", (n % 10) + 1)

Abs(n) == IF n < 0 THEN 0 - n ELSE n

\* a/100 written without trailing zeros, without a point when whole.
Dec2(a) ==
    LET ip == a \div 100
        fp == a % 100
    IN Dec(ip) \o (IF fp = 0 THEN ""
                   ELSE IF fp % 10 = 0 THEN "." \o Dec(fp \div 10)
                   ELSE IF fp < 10 THEN ".0" \o Dec(fp)
                   ELSE "." \o Dec(fp))

\* The f32 values from ip up to ip + 1 are ip + j/F32Steps(ip), for ip from
\* 2^17 up to 2^24 (24 bits of mantissa).
F32Steps(ip) ==
    CASE ip < 262144 -> 64
      [] ip < 524288 -> 32
      [] ip < 1048576 -> 16
      [] ip < 2097152 -> 8
      [] ip < 4194304 -> 4
      [] ip < 8388608 -> 2
      [] OTHER -> 1

\* The f32 nearest to a/100 (ties to the even mantissa) and its Display, for
\* a/100 from 2^17 on: the shortest decimal that reads back as that f32, of
\* two equally short ones the nearer, of two equally near ones the larger.
FmtF32Rounded(a) ==
    LET ip == a \div 100
        fp == a % 100
    IN IF ip >= 16777216
       THEN \* the f32 values are the even numbers
            Dec(IF ip % 2 = 0 THEN ip
                ELSE IF fp > 0 THEN ip + 1
                ELSE IF (ip - 1) % 4 = 0 THEN ip - 1 ELSE ip + 1)
       ELSE LET P == F32Steps(ip)
                j0 == (fp * P) \div 100
                r == (fp * P) % 100
                par == (IF P = 1 THEN ip ELSE 0) + j0
                j == IF r > 50 \/ (r = 50 /\ par % 2 = 1) THEN j0 + 1 ELSE j0
                Within(dist, half) == IF j % 2 = 0 THEN dist <= half ELSE dist < half
                T == {t \in 1..9 : Within(Abs(10 * j - t * P), 5)}
                U == {u \in 1..99 : Within(Abs(100 * j - u * P), 50)}
                t == CHOOSE x \in T : \A y \in T :
                        \/ Abs(10 * j - x * P) < Abs(10 * j - y * P)
                        \/ Abs(10 * j - x * P) = Abs(10 * j - y * P) /\ x >= y
                u == CHOOSE x \in U : \A y \in U :
                        \/ Abs(100 * j - x * P) < Abs(100 * j - y * P)
                        \/ Abs(100 * j - x * P) = Abs(100 * j - y * P) /\ x >= y
            IN IF j = 0 THEN Dec(ip)
               ELSE IF j = P THEN Dec(ip + 1)
               ELSE IF T # {} THEN Dec(ip) \o "." \o Dec(t)
               ELSE Dec(ip) \o (IF u < 10 THEN ".0" ELSE ".") \o Dec(u)

\* The f32 decoded from the JSON number of magnitude h/100, negative when
\* neg: -0.0 is F32(TRUE, 0).
F32(neg, h) == [neg |-> neg, h |-> h]

\* Display of an f32: the sign (of negative zero too), then the shortest
\* decimal that reads back as the same f32.  Below 2^17 the f32 values lie
\* closer than 0.01 and the decimal is h/100 itself; from there on the
\* number is first rounded to an f32.
FmtF32(f) ==
    (IF f.neg THEN "-" ELSE "")
    \o (IF f.h < 13107200 THEN Dec2(f.h) ELSE FmtF32Rounded(f.h))

\* str::lines(): the pieces that end at a "\n", a "\r" just before that
\* "\n" removed, then what is left after the last "\n" if it is not empty
\* (as it is: a "\r" at the end of the text stays).
RECURSIVE Lines(_)
Lines(s) ==
    IF s = "" THEN <<>>
    ELSE LET j == IndexFrom(s, 1, "\n")
             raw == SubSeq(s, 1, j - 1)
             line == IF j <= Len(s) /\ Len(raw) > 0 /\ Char(raw, Len(raw)) = "\r"
                     THEN SubSeq(raw, 1, Len(raw) - 1) ELSE raw
         IN <<line>> \o Lines(SubSeq(s, j + 1, Len(s)))

RECURSIVE Join(_, _)
Join(ls, sep) ==
    IF Len(ls) = 0 THEN ""
    ELSE IF Len(ls) = 1 THEN ls[1]
    ELSE ls[1] \o sep \o Join(Tail(ls), sep)

Skip(ls, n) == SubSeq(ls, n + 1, Len(ls))

\* String::from_utf8_lossy: every invalid byte becomes U+FFFD.
RECURSIVE FromUtf8Lossy(_)
FromUtf8Lossy(bytes) ==
    LET bad == {j \in 1..Len(bytes) : StartsWithAt(bytes, j, "{0xFF}")}
    IN IF bad = {} THEN bytes
       ELSE SubSeq(bytes, 1, Min(bad) - 1) \o "{U+FFFD}"
            \o FromUtf8Lossy(SubSeq(bytes, Min(bad) + 6, Len(bytes)))

(***************************************************************************)
(* The three regular expressions.  Each XxxMatchEnd(s, i) is the index of  *)
(* the last character of the match that starts at i, or 0 when the         *)
(* expression does not match at i.                                         *)
(***************************************************************************)
\* r"\[\[dayone-moment://[^\]]+\]\]"
PHOTO_REGEX_MatchEnd(s, i) ==
    LET pre == "[[dayone-moment://"
        j == IndexFrom(s, i + Len(pre), "]")
    IN IF /\ StartsWithAt(s, i, pre)
          /\ j > i + Len(pre)
          /\ StartsWithAt(s, j, "]]")
       THEN j + 1 ELSE 0

\* r"!\[\]\(dayone-moment://[^)]+\)"
MARKDOWN_PHOTO_REGEX_MatchEnd(s, i) ==
    LET pre == "![](dayone-moment://"
        j == IndexFrom(s, i + Len(pre), ")")
    IN IF /\ StartsWithAt(s, i, pre)
          /\ j > i + Len(pre)
          /\ j <= Len(s)
       THEN j ELSE 0

\* \s: a character with the Unicode property White_Space.
IsSpace(c) ==
    c \in {" ", "\t", "\n", "\r", "\f", "{U+000B}", "{U+0085}", "{U+00A0}",
           "{U+1680}", "{U+2000}", "{U+2001}", "{U+2002}", "{U+2003}",
           "{U+2004}", "{U+2005}", "{U+2006}", "{U+2007}", "{U+2008}",
           "{U+2009}", "{U+200A}", "{U+2028}", "{U+2029}", "{U+202F}",
           "{U+205F}", "{U+3000}"}

IsHexDigit(c) == c \in {Char("0123456789ABCDEF", k) : k \in 1..16}

\* The length of the stand-in for one code point that starts at i, or 0.
StandInLen(s, i) ==
    LET ns == {n \in 4..6 :
                 /\ StartsWithAt(s, i + 3 + n, "}")
                 /\ \A k \in 1..n : IsHexDigit(Char(s, i + 2 + k))}
    IN IF StartsWithAt(s, i, "{U+") /\ ns # {} THEN Min(ns) + 4 ELSE 0

\* Whether a stand-in for one code point starts at i.
IsStandInAt(s, i) == StandInLen(s, i) > 0

\* The index of the last character of the (one) code point that starts at i.
CodePointEnd(s, i) == IF IsStandInAt(s, i) THEN i + StandInLen(s, i) - 1 ELSE i

\* First index j >= i where s has the character "}" (not the end of a
\* stand-in), or Len(s) + 1.
CloseBraceFrom(s, i) ==
    LET at == {j \in i..Len(s) :
                 /\ Char(s, j) = "}"
                 /\ ~\E k \in i..j : IsStandInAt(s, k) /\ CodePointEnd(s, k) = j}
    IN IF at = {} THEN Len(s) + 1 ELSE Min(at)

\* First index j >= i with s[j] # "#", or Len(s) + 1.
HashRun(s, i) ==
    LET at == {j \in i..Len(s) : Char(s, j) # "#"}
    IN IF at = {} THEN Len(s) + 1 ELSE Min(at)

\* r"^#+\s": only at the start of the text.
MARKDOWN_HEADING_REGEX_MatchEnd(s, i) ==
    LET j == HashRun(s, 1)
        e == CodePointEnd(s, j)
    IN IF i = 1 /\ j > 1 /\ j <= Len(s) /\ IsSpace(SubSeq(s, j, e)) THEN e ELSE 0

MatchEnd(regex, s, i) ==
    CASE regex = "PHOTO_REGEX" -> PHOTO_REGEX_MatchEnd(s, i)
      [] regex = "MARKDOWN_PHOTO_REGEX" -> MARKDOWN_PHOTO_REGEX_MatchEnd(s, i)
      [] regex = "MARKDOWN_HEADING_REGEX" -> MARKDOWN_HEADING_REGEX_MatchEnd(s, i)

\* Start of the leftmost match at or after i, or 0.
FindFrom(regex, s, i) ==
    LET at == {j \in i..Len(s) : MatchEnd(regex, s, j) > 0}
    IN IF at = {} THEN 0 ELSE Min(at)

\* The characters of a group name written without braces.
IsCapLetter(c) ==
    c \in {Char("0123456789ABCDEFGHIJKLMNOPQRSTUVWXYZabcdefghijklmnopqrstuvwxyz_", k) :
             k \in 1..63}

\* First index j >= i where rep has no group-name character, or Len(rep) + 1.
CapEnd(rep, i) ==
    Min({j \in i..(Len(rep) + 1) : j > Len(rep) \/ ~IsCapLetter(Char(rep, j))})

\* What a reference to the group called name stands for.  The expressions
\* of this program have no group but group 0, the whole match: a name that
\* reads as the number 0 gives the match, any other name the empty text.
CapRef(name, matched) ==
    LET digits == IF StartsWithAt(name, 1, "+") THEN SubSeq(name, 2, Len(name)) ELSE name
    IN IF digits # "" /\ \A k \in 1..Len(digits) : Char(digits, k) = "0"
       THEN matched ELSE ""

\* The replacement text rep with its references put in: "$$" is "$",
\* "$name" (the longest run of letters, digits and "_") and "${name}" (up
\* to the first "}") are the group, a "$" that starts none of these stays.
RECURSIVE Expand(_, _)
Expand(rep, matched) ==
    LET i == IndexFrom(rep, 1, "$")
        head == SubSeq(rep, 1, i - 1)
        close == CloseBraceFrom(rep, i + 2)
        e == CapEnd(rep, i + 1)
    IN IF i > Len(rep) THEN rep
       ELSE IF StartsWithAt(rep, i, "$$")
       THEN head \o "$" \o Expand(SubSeq(rep, i + 2, Len(rep)), matched)
       ELSE IF StartsWithAt(rep, i, "${") /\ ~IsStandInAt(rep, i + 1)
       THEN IF close > Len(rep)
            THEN head \o "$" \o Expand(SubSeq(rep, i + 1, Len(rep)), matched)
            ELSE head \o CapRef(SubSeq(rep, i + 2, close - 1), matched)
                 \o Expand(SubSeq(rep, close + 1, Len(rep)), matched)
       ELSE IF e = i + 1
       THEN head \o "$" \o Expand(SubSeq(rep, i + 1, Len(rep)), matched)
       ELSE head \o CapRef(SubSeq(rep, i + 1, e - 1), matched)
            \o Expand(SubSeq(rep, e, Len(rep)), matched)

\* Regex::replace with a &str replacement: the leftmost match is replaced by
\* the expanded replacement, the text is unchanged when there is no match.
RegexReplace(regex, s, rep) ==
    LET i == FindFrom(regex, s, 1)
        e == MatchEnd(regex, s, i)
    IN IF i = 0 THEN s
       ELSE SubSeq(s, 1, i - 1) \o Expand(rep, SubSeq(s, i, e))
            \o SubSeq(s, e + 1, Len(s))

(***************************************************************************)
(* day_one: Photo, get_moon and the methods of Entry.                      *)
(***************************************************************************)
Photo_link(photo) == "[[./images/" \o photo.md5 \o "." \o photo.type \o "]]"

\* get_moon with a default arm instead of the panic.
get_moon_lenient(moon) ==
    IF moon = "full" THEN Ret("{U+00F0}{U+0178}{U+0152}{U+2022}") ELSE Ret("")

\* The texts are the ones the source file holds: four code points each.
get_moon(moon) ==
    CASE moon = "new" -> Ret("{U+00F0}{U+0178}{U+0152}{U+2018}")
      [] moon = "waning-crescent" -> Ret("{U+00F0}{U+0178}{U+0152}{U+02DC}")
      [] moon = "last-quarter" -> Ret("{U+00F0}{U+0178}{U+0152}{U+2014}")
      [] moon = "waning-gibbous" -> Ret("{U+00F0}{U+0178}{U+0152}{U+2013}")
      [] moon = "full" -> Ret("{U+00F0}{U+0178}{U+0152}{U+2022}")
      [] moon = "waxing-gibbous" -> Ret("{U+00F0}{U+0178}{U+0152}{U+201D}")
      [] moon = "first-quarter" -> Ret("{U+00F0}{U+0178}{U+0152}{U+201C}")
      [] moon = "waxing-crescent" -> Ret("{U+00F0}{U+0178}{U+0152}{U+2019}")
      [] OTHER -> Panic("fake moon")

Entry_year(entry) == entry.creation_date.year
Entry_month(entry) == entry.creation_date.month
Entry_day(entry) == entry.creation_date.day

\* HashMap::insert on a map held as a function.
MapInsert(map, k, v) == (k :> v) @@ map

Entry_properties(entry) ==
    LET weather == entry.weather
        moonSome == IsSome(weather) /\ IsSome(Unwrap(weather).moon_phase_code)
        moon == IF moonSome THEN get_moon(Unwrap(Unwrap(weather).moon_phase_code))
                ELSE Ret("")
        p0 == <<>>
        p1 == IF moonSome THEN MapInsert(p0, "Moon", moon.val) ELSE p0
        p2 == IF IsSome(weather) /\ IsSome(Unwrap(weather).conditions_description)
              THEN MapInsert(p1, "Weather", Unwrap(Unwrap(weather).conditions_description))
              ELSE p1
        p3 == IF IsSome(entry.music)
              THEN MapInsert(p2, "Music",
                     Unwrap(entry.music).artist \o " {U+00E2}{U+20AC}{U+201D} " \o Unwrap(entry.music).track)
              ELSE p2
        p4 == IF IsSome(entry.location)
              THEN MapInsert(MapInsert(MapInsert(p3,
                     "Latitude", FmtF32(Unwrap(entry.location).latitude)),
                     "Longitude", FmtF32(Unwrap(entry.location).longitude)),
                     "Location", Unwrap(entry.location).place_name)
              ELSE p3
    IN IF moon.tag = "Panic" THEN moon ELSE Ret(p4)

\* title() that takes the first line without asking whether there is one.
Entry_title_anyText(entry, first_photo_link) ==
    IF IsSome(entry.text)
    THEN LET ls == Lines(Unwrap(entry.text))
             line0 == IF Len(ls) > 0 THEN ls[1] ELSE ""
             line1 == RegexReplace("MARKDOWN_HEADING_REGEX", line0, "")
             line2 == IF IsSome(first_photo_link)
                      THEN RegexReplace("MARKDOWN_PHOTO_REGEX", line1,
                                        Unwrap(first_photo_link))
                      ELSE line1
         IN Some(line2)
    ELSE None

Entry_title(entry, first_photo_link) ==
    IF IsSome(entry.text) /\ Len(Lines(Unwrap(entry.text))) > 0
    THEN LET line0 == Lines(Unwrap(entry.text))[1]
             line1 == RegexReplace("MARKDOWN_HEADING_REGEX", line0, "")
             line2 == IF IsSome(first_photo_link)
                      THEN RegexReplace("MARKDOWN_PHOTO_REGEX", line1,
                                        Unwrap(first_photo_link))
                      ELSE line1
         IN Some(line2)
    ELSE None

\* sort_by_key(|p| p.order_in_entry): a stable sort.
RECURSIVE SortByOrder(_)
InsertByOrder(sorted, p) ==
    LET k == Cardinality({i \in 1..Len(sorted) : sorted[i].order_in_entry <= p.order_in_entry})
    IN SubSeq(sorted, 1, k) \o <<p>> \o SubSeq(sorted, k + 1, Len(sorted))
SortByOrder(photos) ==
    IF Len(photos) = 0 THEN <<>>
    ELSE InsertByOrder(SortByOrder(SubSeq(photos, 1, Len(photos) - 1)), photos[Len(photos)])

\* The loop of lines 182-186: one replace per photo, in the given order.
RECURSIVE SubstitutePhotos(_, _)
SubstitutePhotos(body, photos) ==
    IF Len(photos) = 0 THEN body
    ELSE SubstitutePhotos(RegexReplace("PHOTO_REGEX", body, Photo_link(photos[1])),
                          Tail(photos))

\* The converted body before the photos are put in (lines 177-178).
ConvertedBody(stdout) == Join(Skip(Lines(FromUtf8Lossy(stdout)), 4), "\n")

\* pandoc is the run of the converter on this entry's text: whether it could
\* be spawned, fed and read, its exit status and the bytes of its stdout.
Entry_body(entry, photos, pandoc) ==
    IF ~IsSome(entry.text) THEN Ret(None)
    ELSE IF ~pandoc.spawned THEN Panic("panda dog couldn't do it")
    ELSE IF ~pandoc.fed THEN Panic("couldn't feed the panda dog")
    ELSE IF ~pandoc.read THEN Panic("Failed to read stdout")
    ELSE LET body == ConvertedBody(pandoc.stdout)
         IN Ret(Some(IF IsSome(photos)
                     THEN SubstitutePhotos(body, SortByOrder(Unwrap(photos)))
                     ELSE body))

(***************************************************************************)
(* time_tree: the names of months and days, and the tree.  A HashMap is a  *)
(* function; its key set is DOMAIN.                                        *)
(***************************************************************************)
Month_name_from(m) ==
    CASE m = 1 -> Ret("January")
      [] m = 2 -> Ret("February")
      [] m = 3 -> Ret("March")
      [] m = 4 -> Ret("April")
      [] m = 5 -> Ret("May")
      [] m = 6 -> Ret("June")
      [] m = 7 -> Ret("July")
      [] m = 8 -> Ret("August")
      [] m = 9 -> Ret("September")
      [] m = 10 -> Ret("October")
      [] m = 11 -> Ret("November")
      [] m = 12 -> Ret("December")
      [] OTHER -> Panic("Bad month")

IsLeap(y) == y % 4 = 0 /\ (y % 100 # 0 \/ y % 400 = 0)

DaysInMonth(y, m) ==
    IF m = 2 THEN (IF IsLeap(y) THEN 29 ELSE 28)
    ELSE IF m \in {4, 6, 9, 11} THEN 30 ELSE 31

\* Utc.ymd(y, m, d).format("%A"): the weekday of the Gregorian date; ymd
\* panics when there is no such date.
Day_name_from(y, m, d) ==
    LET t == <<0, 3, 2, 5, 0, 3, 5, 1, 4, 6, 2, 4>>
        yy == IF m < 3 THEN y - 1 ELSE y
        dow == (yy + (yy \div 4) - (yy \div 100) + (yy \div 400) + t[m] + d) % 7
    IN IF /\ y \in -262143..262142
          /\ m \in 1..12
          /\ d \in 1..DaysInMonth(y, m)
       THEN Ret(<<"Sunday", "Monday", "Tuesday", "Wednesday", "Thursday",
                  "Friday", "Saturday">>[dow + 1])
       ELSE Panic("No such local time")

\* insert in place of entry().or_insert(): a bucket that exists is replaced.
OrInsert_overwrite(map, k, v) == MapInsert(map, k, v)

\* map.entry(k).or_insert(v): v is stored only when k has no value yet.
OrInsert(map, k, v) == IF k \in DOMAIN map THEN map ELSE MapInsert(map, k, v)

Root_add_entry(ys, entry) ==
    LET y == Entry_year(entry)
        m == Entry_month(entry)
        d == Entry_day(entry)
        ys1 == OrInsert(ys, y, [months |-> <<>>])
        ms1 == OrInsert(ys1[y].months, m, [days |-> <<>>])
        ds1 == OrInsert(ms1[m].days, d, [entries |-> <<>>])
        day == [entries |-> Append(ds1[d].entries, entry)]
    IN [ys1 EXCEPT ![y] = [months |->
          [ms1 EXCEPT ![m] = [days |-> [ds1 EXCEPT ![d] = day]]]]]

\* HashMap::keys().collect(): the keys in an order the map chooses.
Keys(map) ==
    {ks \in [1..Cardinality(DOMAIN map) -> DOMAIN map] :
        \A i, j \in DOMAIN ks : i # j => ks[i] # ks[j]}

\* The keys left in the order the map gave them.
Sort_unsorted(v) == v

\* Vec::sort of numbers: ascending.
RECURSIVE Sort(_)
Sort(v) ==
    IF Len(v) = 0 THEN <<>>
    ELSE LET rest == Sort(Tail(v))
             k == Cardinality({i \in 1..Len(rest) : rest[i] < v[1]})
         IN SubSeq(rest, 1, k) \o <<v[1]>> \o SubSeq(rest, k + 1, Len(rest))

\* Lines 291-294: photos[0] of a present but empty Vec is out of bounds.
FirstPhoto(entry) ==
    IF IsSome(entry.photos)
    THEN IF Len(Unwrap(entry.photos)) = 0
         THEN Panic("index out of bounds: the len is 0 but the index is 0")
         ELSE Ret(Some(Photo_link(Unwrap(entry.photos)[1])))
    ELSE Ret(None)

Line(kind, id, text) == [kind |-> kind, id |-> id, line |-> text]

(***************************************************************************)
(* Inputs.                                                                 *)
(***************************************************************************)
MaxEntries == 2

Date(y, m, d) == [year |-> y, month |-> m, day |-> d]

Dates == {Date(2020, 11, 7), Date(2021, 2, 9), Date(2021, 3, 5), Date(2021, 3, 6)}

MkPhoto(md5, type, order) == [md5 |-> md5, type |-> type, order_in_entry |-> order]

PhotoA == MkPhoto("0a1b", "jpeg", 1)
PhotoB == MkPhoto("c2d3", "png", 2)
PhotoC == MkPhoto("e4f5", "jpeg", 3)

MkWeather(conditions, moon) ==
    [conditions_description |-> conditions, moon_phase_code |-> moon]

\* The fields of an Entry other than creation_date.
Contents ==
    { [text |-> None, location |-> None, weather |-> None, music |-> None,
       photos |-> None],
      [text |-> Some("# Walk ![](dayone-moment://A)\n\n![](dayone-moment://B)"),
       location |-> None, weather |-> None, music |-> None,
       photos |-> Some(<<PhotoB, PhotoA>>)],
      [text |-> None, location |-> None, weather |-> None, music |-> None,
       photos |-> Some(<<>>)],
      [text |-> Some("plain line"), location |-> None,
       weather |-> Some(MkWeather(Some("Cloudy"), Some("full"))), music |-> None,
       photos |-> None],
      [text |-> Some(""), location |-> None,
       weather |-> Some(MkWeather(None, Some("eclipse"))), music |-> None,
       photos |-> None],
      [text |-> Some("Empty\nmore"), location |-> None, weather |-> None,
       music |-> None, photos |-> Some(<<PhotoA>>)],
      [text |-> None, location |-> None,
       weather |-> Some(MkWeather(Some("Windy"), Some("new"))), music |-> None,
       photos |-> None] }

Bare == [text |-> None, location |-> None, weather |-> None, music |-> None,
         photos |-> None]

\* The bare entry on every date, the other contents on the two days of
\* March 2021.
EntrySet ==
    {e \in {[creation_date |-> d] @@ c : d \in Dates, c \in Contents} :
        e.creation_date.month = 3 \/ [f \in DOMAIN Bare |-> e[f]] = Bare}

\* Journal.entries; id is the position of the entry in the input array (the
\* identity of the value that is moved into the tree).
Journals ==
    UNION {{[i \in 1..n |-> [id |-> i] @@ f[i]] : f \in [1..n -> EntrySet]} :
           n \in 0..MaxEntries}

MkPandoc(spawned, fed, read, status, stdout) ==
    [spawned |-> spawned, fed |-> fed, read |-> read, status |-> status,
     stdout |-> stdout]

NoPandoc == MkPandoc(FALSE, FALSE, FALSE, 0, "")

\* What a run of the converter can come to.
PandocRuns ==
    { MkPandoc(FALSE, FALSE, FALSE, 0, ""),
      MkPandoc(TRUE, FALSE, FALSE, 0, ""),
      MkPandoc(TRUE, TRUE, FALSE, 0, ""),
      MkPandoc(TRUE, TRUE, TRUE, 0,
        "* Walk\n:PROPERTIES:\n:CUSTOM_ID: walk\n:END:\n[[dayone-moment://A]]\n\nsee [[dayone-moment://B]]\n"),
      MkPandoc(TRUE, TRUE, TRUE, 1, ""),
      MkPandoc(TRUE, TRUE, TRUE, 0, "a\nb\nc\nd\ne{0xFF}\n") }

(***************************************************************************)
(* State.                                                                  *)
(***************************************************************************)
VARIABLES
    journal,      \* the decoded Journal.entries
    pc,           \* where the run is
    consumed,     \* entries Root::from has passed to add_entry
    years,        \* Root.years
    year_nums, month_nums, day_nums,   \* the sorted key vectors of print
    y_i, m_i, d_i, e_i,                \* the positions of print's four loops
    first_photo,  \* the local first_photo of print (line 291)
    out,          \* the lines printed so far
    panic_msg,    \* the panic message once the run has aborted
    pandocs,      \* entry id -> the converter run made for that entry
    call,         \* the arguments of a method called on its own
    ret           \* what that call returned

vars == <<journal, pc, consumed, years, year_nums, month_nums, day_nums,
          y_i, m_i, d_i, e_i, first_photo, out, panic_msg, pandocs, call, ret>>

tree_vars == <<journal, consumed, years>>
loop_vars == <<year_nums, month_nums, day_nums, y_i, m_i, d_i, e_i>>
call_vars == <<call, ret>>

Idle ==
    /\ consumed = 0
    /\ years = <<>>
    /\ year_nums = <<>> /\ month_nums = <<>> /\ day_nums = <<>>
    /\ y_i = 0 /\ m_i = 0 /\ d_i = 0 /\ e_i = 0
    /\ first_photo = None
    /\ out = <<>>
    /\ panic_msg = ""
    /\ pandocs = <<>>

Init ==
    /\ journal \in Journals
    /\ pc = "from"
    /\ Idle
    /\ call = <<>>
    /\ ret = <<>>

(***************************************************************************)
(* main: Root::from, then Root::print.                                     *)
(***************************************************************************)
\* One turn of the loop of Root::from (lines 268-270).
AddEntry ==
    /\ pc = "from"
    /\ consumed < Len(journal)
    /\ years' = Root_add_entry(years, journal[consumed + 1])
    /\ consumed' = consumed + 1
    /\ UNCHANGED <<journal, pc, loop_vars, first_photo, out, panic_msg, pandocs,
                   call_vars>>

\* Root::from returns and print collects and sorts the years (275-276).
PrintStart ==
    /\ pc = "from"
    /\ consumed = Len(journal)
    /\ \E ks \in Keys(years) : year_nums' = Sort(ks)
    /\ y_i' = 1
    /\ pc' = "year"
    /\ UNCHANGED <<tree_vars, month_nums, day_nums, m_i, d_i, e_i, first_photo,
                   out, panic_msg, pandocs, call_vars>>

CurYear == years[year_nums[y_i]]
CurMonth == CurYear.months[month_nums[m_i]]
CurDay == CurMonth.days[day_nums[d_i]]
CurEntry == CurDay.entries[e_i]

\* The head of the loop over year_nums (277-281).
PrintYear ==
    /\ pc = "year"
    /\ IF y_i <= Len(year_nums)
       THEN /\ \E ks \in Keys(CurYear.months) : month_nums' = Sort(ks)
            /\ out' = Append(out, Line("h1", 0, "* " \o Dec(year_nums[y_i])))
            /\ m_i' = 1
            /\ pc' = "month"
       ELSE /\ pc' = "done"
            /\ UNCHANGED <<month_nums, out, m_i>>
    /\ UNCHANGED <<tree_vars, year_nums, day_nums, y_i, d_i, e_i, first_photo,
                   panic_msg, pandocs, call_vars>>

\* The head of the loop over month_nums (282-286).
PrintMonth ==
    /\ pc = "month"
    /\ IF m_i <= Len(month_nums)
       THEN LET y == year_nums[y_i]
                m == month_nums[m_i]
                name == Month_name_from(m)
            IN /\ \E ks \in Keys(CurMonth.days) : day_nums' = Sort(ks)
               /\ d_i' = 1
               /\ IF name.tag = "Panic"
                  THEN /\ pc' = "panic" /\ panic_msg' = name.val
                       /\ UNCHANGED out
                  ELSE /\ pc' = "day"
                       /\ out' = Append(out, Line("h2", 0,
                            "** " \o Dec(y) \o "-" \o Dec(m) \o " " \o name.val))
                       /\ UNCHANGED panic_msg
               /\ UNCHANGED y_i
       ELSE /\ y_i' = y_i + 1
            /\ pc' = "year"
            /\ UNCHANGED <<day_nums, d_i, out, panic_msg>>
    /\ UNCHANGED <<tree_vars, year_nums, month_nums, m_i, e_i, first_photo,
                   pandocs, call_vars>>

\* The head of the loop over day_nums (287-289).
PrintDay ==
    /\ pc = "day"
    /\ IF d_i <= Len(day_nums)
       THEN LET y == year_nums[y_i]
                m == month_nums[m_i]
                d == day_nums[d_i]
                name == Day_name_from(y, m, d)
            IN /\ e_i' = 1
               /\ IF name.tag = "Panic"
                  THEN /\ pc' = "panic" /\ panic_msg' = name.val
                       /\ UNCHANGED out
                  ELSE /\ pc' = "entry"
                       /\ out' = Append(out, Line("h3", 0,
                            "*** " \o Dec(y) \o "-" \o Dec(m) \o "-" \o Dec(d)
                                   \o " " \o name.val))
                       /\ UNCHANGED panic_msg
               /\ UNCHANGED m_i
       ELSE /\ m_i' = m_i + 1
            /\ pc' = "month"
            /\ UNCHANGED <<out, e_i, panic_msg>>
    /\ UNCHANGED <<tree_vars, year_nums, month_nums, day_nums, y_i, d_i,
                   first_photo, pandocs, call_vars>>

\* The head of the loop over day.entries: first_photo and the heading of the
\* entry (290-298).
PrintTitle ==
    /\ pc = "entry"
    /\ IF e_i <= Len(CurDay.entries)
       THEN LET fp == FirstPhoto(CurEntry)
            IN IF fp.tag = "Panic"
               THEN /\ pc' = "panic" /\ panic_msg' = fp.val
                    /\ UNCHANGED <<first_photo, out, d_i>>
               ELSE /\ first_photo' = fp.val
                    /\ out' = Append(out, Line("h4", CurEntry.id,
                         "**** " \o UnwrapOr(Entry_title(CurEntry, fp.val), "Empty")))
                    /\ pc' = "properties"
                    /\ UNCHANGED <<panic_msg, d_i>>
       ELSE /\ d_i' = d_i + 1
            /\ pc' = "day"
            /\ UNCHANGED <<first_photo, out, panic_msg>>
    /\ UNCHANGED <<tree_vars, year_nums, month_nums, day_nums, y_i, m_i, e_i,
                   pandocs, call_vars>>

PropLine(id, props, k) == Line("prop", id, ":" \o k \o ": " \o props[k])

\* The properties drawer of the entry (299-303); the HashMap is iterated in
\* an order it chooses.
PrintProperties ==
    /\ pc = "properties"
    /\ LET props == Entry_properties(CurEntry)
           open == Append(out, Line("open", CurEntry.id, ":PROPERTIES:"))
       IN IF props.tag = "Panic"
          THEN /\ pc' = "panic" /\ panic_msg' = props.val
               /\ out' = open
          ELSE /\ \E ks \in Keys(props.val) :
                    out' = open
                           \o [i \in DOMAIN ks |-> PropLine(CurEntry.id, props.val, ks[i])]
                           \o <<Line("end", CurEntry.id, ":END:")>>
               /\ pc' = "body"
               /\ UNCHANGED panic_msg
    /\ UNCHANGED <<tree_vars, loop_vars, first_photo, pandocs, call_vars>>

\* The body of the entry (304); pandoc is run only for an entry with text.
PrintBody ==
    /\ pc = "body"
    /\ \E pandoc \in (IF IsSome(CurEntry.text) THEN PandocRuns ELSE {NoPandoc}) :
         LET body == Entry_body(CurEntry, CurEntry.photos, pandoc)
         IN /\ pandocs' = IF IsSome(CurEntry.text)
                          THEN MapInsert(pandocs, CurEntry.id, pandoc) ELSE pandocs
            /\ IF body.tag = "Panic"
               THEN /\ pc' = "panic" /\ panic_msg' = body.val
                    /\ UNCHANGED <<out, e_i>>
               ELSE /\ out' = Append(out, Line("body", CurEntry.id, UnwrapOr(body.val, "")))
                    /\ e_i' = e_i + 1
                    /\ pc' = "entry"
                    /\ UNCHANGED panic_msg
    /\ UNCHANGED <<tree_vars, year_nums, month_nums, day_nums, y_i, m_i, d_i,
                   first_photo, call_vars>>

Next ==
    \/ AddEntry
    \/ PrintStart
    \/ PrintYear
    \/ PrintMonth
    \/ PrintDay
    \/ PrintTitle
    \/ PrintProperties
    \/ PrintBody

Spec == Init /\ [][Next]_vars

(***************************************************************************)
(* A method of Entry called on its own, on arguments drawn from a set.     *)
(***************************************************************************)
MaxPhotos == 3

PhotoD == MkPhoto("a6b7", "heic", 2)

\* md5 and type are any JSON strings: this md5 reads as a reference to the
\* whole match when the link is the replacement text.
PhotoE == MkPhoto("$0", "gif", 1)

PhotoSet == {PhotoA, PhotoB, PhotoC, PhotoD, PhotoE}

\* The photos arrays: up to MaxPhotos different photos in any order.
PhotoVecs ==
    UNION {{v \in [1..n -> PhotoSet] : \A i, j \in 1..n : i # j => v[i] # v[j]} :
           n \in 0..MaxPhotos}

\* Converter output: four lines that are dropped, then the converted text.
Preamble == "* T\n:PROPERTIES:\n:CUSTOM_ID: t\n:END:\n"

ConvertedTexts ==
    { "",
      "no photo here\n",
      "[[dayone-moment://A]]\n",
      "x [[dayone-moment://A]] y [[dayone-moment://B]]\n",
      "[[dayone-moment://A]]\n[[dayone-moment://B]]\n\nz[[dayone-moment://C]]\n",
      "[[dayone-moment://] [[dayone-moment://A]][[dayone-moment://B]]\n",
      "[[dayone-moment://A] [[dayone-moment://B]] ![](dayone-moment://C)\n",
      "[[dayone-moment://A[[dayone-moment://B]]]] [[./images/0a1b.jpeg]]\n" }

BodyCalls ==
    {[fn |-> "body", entry |-> [text |-> Some("t")], photos |-> Some(v),
      pandoc |-> MkPandoc(TRUE, TRUE, TRUE, 0, Preamble \o t)] :
        v \in PhotoVecs, t \in ConvertedTexts}

InitBody ==
    /\ journal = <<>>
    /\ pc = "called"
    /\ Idle
    /\ call \in BodyCalls
    /\ ret = <<>>

\* self.body(&photos)
CallBody ==
    /\ pc = "called"
    /\ call.fn = "body"
    /\ ret' = Entry_body(call.entry, call.photos, call.pandoc)
    /\ pc' = "returned"
    /\ UNCHANGED <<tree_vars, loop_vars, first_photo, out, panic_msg, pandocs, call>>

SpecBody == InitBody /\ [][CallBody]_vars

Weathers ==
    {None} \cup
    {Some(MkWeather(c, m)) :
        c \in {None, Some("Cloudy"), Some("")},
        m \in {None, Some("full"), Some("new"), Some("waning-crescent"),
               Some("eclipse")}}

Musics ==
    {None, Some([artist |-> "Boards of Canada", track |-> "Roygbiv"]),
     Some([artist |-> "", track |-> ""])}

Locations ==
    {None,
     Some([longitude |-> F32(TRUE, 12), latitude |-> F32(FALSE, 5150),
           place_name |-> "London"]),
     Some([longitude |-> F32(FALSE, 100000001), latitude |-> F32(TRUE, 0),
           place_name |-> ""])}

PropertiesCalls ==
    {[fn |-> "properties",
      entry |-> [weather |-> w, music |-> m, location |-> l]] :
        w \in Weathers, m \in Musics, l \in Locations}

InitProperties ==
    /\ journal = <<>>
    /\ pc = "called"
    /\ Idle
    /\ call \in PropertiesCalls
    /\ ret = <<>>

\* self.properties()
CallProperties ==
    /\ pc = "called"
    /\ call.fn = "properties"
    /\ ret' = Entry_properties(call.entry)
    /\ pc' = "returned"
    /\ UNCHANGED <<tree_vars, loop_vars, first_photo, out, panic_msg, pandocs, call>>

SpecProperties == InitProperties /\ [][CallProperties]_vars

(***************************************************************************)
(* Properties of the run.                                                  *)
(***************************************************************************)
\* The places <<year, month, day, position>> of the tree that hold entry id.
Held(id) ==
    UNION {UNION {UNION {
        {<<y, m, d, k>> : k \in {k \in 1..Len(years[y].months[m].days[d].entries) :
                                   years[y].months[m].days[d].entries[k].id = id}} :
        d \in DOMAIN years[y].months[m].days} :
        m \in DOMAIN years[y].months} :
        y \in DOMAIN years}

AllHeld ==
    UNION {UNION {UNION {
        {<<y, m, d, k>> : k \in 1..Len(years[y].months[m].days[d].entries)} :
        d \in DOMAIN years[y].months[m].days} :
        m \in DOMAIN years[y].months} :
        y \in DOMAIN years}

\* C1: once Root::from has taken every entry of the Journal, each entry is
\* held exactly once, unchanged, in the Day of the year, month and day of its
\* creation_date, and the tree holds as many entries as the Journal.
C1_EveryEntryInItsDay ==
    pc # "from" =>
        /\ \A i \in 1..Len(journal) :
             LET c == journal[i].creation_date
             IN \E k \in 1..Len(journal) :
                  /\ Held(i) = {<<c.year, c.month, c.day, k>>}
                  /\ years[c.year].months[c.month].days[c.day].entries[k] = journal[i]
        /\ Cardinality(AllHeld) = Len(journal)

\* Two entries of the same date are in the tree: one Day holds both.
C1_Witness ==
    /\ pc = "year"
    /\ \E i, j \in 1..Len(journal) :
         /\ i # j
         /\ journal[i].creation_date = journal[j].creation_date
    /\ Cardinality(DOMAIN years) + 1 <= Len(journal)

DateLess(a, b) ==
    \/ a.year < b.year
    \/ a.year = b.year /\ a.month < b.month
    \/ a.year = b.year /\ a.month = b.month /\ a.day < b.day

\* C2: the entries are printed by ascending year, month and day, and the
\* entries of one day in Journal order: of two entry headings printed, the
\* earlier one has the smaller date, or the same date and the smaller
\* position in the Journal.
C2_PrintedInDateOrder ==
    \A a, b \in DOMAIN out :
        (a < b /\ out[a].kind = "h4" /\ out[b].kind = "h4") =>
            LET ea == journal[out[a].id]
                eb == journal[out[b].id]
            IN \/ DateLess(ea.creation_date, eb.creation_date)
               \/ ea.creation_date = eb.creation_date /\ ea.id < eb.id

\* Both entries of a Journal that lists the later date first are printed.
C2_Witness ==
    /\ Len(journal) >= 2
    /\ DateLess(journal[2].creation_date, journal[1].creation_date)
    /\ \E a, b \in DOMAIN out :
         /\ out[a].kind = "h4" /\ out[a].id = 2
         /\ out[b].kind = "h4" /\ out[b].id = 1

InEntry == pc \in {"properties", "body"}

HasPhotos(entry) == IsSome(entry.photos) /\ Len(Unwrap(entry.photos)) > 0

MinOrderPhotos(entry) ==
    {p \in {Unwrap(entry.photos)[k] : k \in 1..Len(Unwrap(entry.photos))} :
        \A k \in 1..Len(Unwrap(entry.photos)) :
            p.order_in_entry <= Unwrap(entry.photos)[k].order_in_entry}

\* C4: for an entry with photos, the first_photo handed to Entry::title is
\* the link of the photo with the smallest order_in_entry.
C4_FirstPhotoBySmallestOrder ==
    (InEntry /\ HasPhotos(CurEntry)) =>
        \E p \in MinOrderPhotos(CurEntry) : first_photo = Some(Photo_link(p))

FatalByDesign ==
    {"fake moon", "panda dog couldn't do it", "couldn't feed the panda dog",
     "Failed to read stdout"}

\* C5: for an entry without photos (the field absent, or present and empty)
\* first_photo is None, and the entry is rendered: the run does not abort on
\* it other than by a failure the design makes fatal.
C5_NoPhotosRendered ==
    /\ (InEntry /\ ~HasPhotos(CurEntry)) => first_photo = None
    /\ (pc = "panic" /\ panic_msg \notin {"Bad month", "No such local time"}
          /\ ~HasPhotos(CurEntry)) =>
           panic_msg \in FatalByDesign

HasInvalidBytes(bytes) == \E j \in 1..Len(bytes) : StartsWithAt(bytes, j, "{0xFF}")

ConversionFailed(pandoc) ==
    \/ ~pandoc.spawned
    \/ ~pandoc.fed
    \/ ~pandoc.read
    \/ pandoc.status # 0
    \/ HasInvalidBytes(pandoc.stdout)

\* C6: a failed conversion (the converter not started, fed or read, a
\* non-zero exit status, output that is not readable text) aborts the run.
C6_ConversionFailureAborts ==
    \A id \in DOMAIN pandocs : ConversionFailed(pandocs[id]) => pc = "panic"

MoonCodes ==
    {"new", "waxing-crescent", "first-quarter", "waxing-gibbous", "full",
     "waning-gibbous", "last-quarter", "waning-crescent"}

FakeMoon(entry) ==
    /\ IsSome(entry.weather)
    /\ IsSome(Unwrap(entry.weather).moon_phase_code)
    /\ Unwrap(Unwrap(entry.weather).moon_phase_code) \notin MoonCodes

\* C7 as stated: when an entry of the Journal has a moon_phase_code outside
\* the eight codes, properties() returns no mapping for it, no line of a
\* properties block (:PROPERTIES:, a property, :END:) is printed for it, and
\* the run never completes.
C7_NoPropertiesBlock ==
    \A i \in 1..Len(journal) :
        FakeMoon(journal[i]) =>
            /\ Entry_properties(journal[i]).tag = "Panic"
            /\ pc # "done"
            /\ \A k \in DOMAIN out :
                 out[k].id = i => out[k].kind \notin {"open", "prop", "end"}

\* C7: when an entry of the Journal has a moon_phase_code outside the eight
\* codes, properties() returns no mapping for it and the run never
\* completes; what is printed for the entry is at most its heading and the
\* opening :PROPERTIES: line, and once that line is printed the run has
\* aborted with "fake moon": no property line, no :END: and no body follow.
C7_UnknownMoonAborts ==
    \A i \in 1..Len(journal) :
        FakeMoon(journal[i]) =>
            LET ls == SelectSeq(out, LAMBDA l : l.id = i)
            IN /\ Entry_properties(journal[i]).tag = "Panic"
               /\ pc # "done"
               /\ Len(ls) <= 2
               /\ Len(ls) >= 1 => ls[1].kind = "h4"
               /\ Len(ls) = 2 =>
                    /\ ls[2] = Line("open", i, ":PROPERTIES:")
                    /\ out[Len(out)] = ls[2]
                    /\ pc = "panic"
                    /\ panic_msg = "fake moon"

\* The run has aborted in properties() on an unknown code.
C7_Witness ==
    /\ pc = "panic"
    /\ panic_msg = "fake moon"
    /\ FakeMoon(CurEntry)
    /\ out[Len(out)] = Line("open", CurEntry.id, ":PROPERTIES:")
    /\ out[Len(out) - 1].kind = "h4"

NoText(entry) == ~IsSome(entry.text) \/ Unwrap(entry.text) = ""

LinesOf(id) == SelectSeq(out, LAMBDA l : l.id = id)

\* title is None for an absent or empty text, whatever first_photo_link.
TitleNoneWithoutText(e) ==
    NoText(e) =>
        \A fp \in {None, Some(Photo_link(PhotoA))} : Entry_title(e, fp) = None

\* The lines printed for an entry without a text field, once its body is
\* printed: "**** Empty", :PROPERTIES:, one line ":key: value" for each key
\* of properties(), :END:, and the empty body.
NoTextFieldRendered(i) ==
    LET e == journal[i]
        ls == LinesOf(i)
        n == Len(ls)
        props == Entry_properties(e).val
    IN (~IsSome(e.text) /\ n > 0 /\ ls[n].kind = "body") =>
         /\ ls[1] = Line("h4", i, "**** Empty")
         /\ ls[2] = Line("open", i, ":PROPERTIES:")
         /\ n = Cardinality(DOMAIN props) + 4
         /\ {ls[k] : k \in 3..(n - 2)} = {PropLine(i, props, key) : key \in DOMAIN props}
         /\ ls[n - 1] = Line("end", i, ":END:")
         /\ ls[n] = Line("body", i, "")

\* C9 as stated: title is None when text is absent or empty; the heading
\* printed for an entry is "**** Empty" exactly when its title is None; an
\* entry without a text field is printed as "**** Empty", its properties
\* between :PROPERTIES: and :END:, and an empty body.
C9_EmptyExactlyWhenNone ==
    \A i \in 1..Len(journal) :
        /\ TitleNoneWithoutText(journal[i])
        /\ LinesOf(i) # <<>> =>
             (LinesOf(i)[1].line = "**** Empty"
                <=> Entry_title(journal[i], FirstPhoto(journal[i]).val) = None)
        /\ NoTextFieldRendered(i)

\* C9: title is None when text is absent or empty, and for an entry whose
\* heading is printed only then; the heading is "**** Empty" when the title
\* is None, and otherwise only when the title is itself the text "Empty";
\* an entry without a text field is printed as "**** Empty", its properties
\* between :PROPERTIES: and :END:, and an empty body.
C9_EmptyTitleAndBody ==
    \A i \in 1..Len(journal) :
        /\ TitleNoneWithoutText(journal[i])
        /\ LinesOf(i) # <<>> =>
             LET title == Entry_title(journal[i], FirstPhoto(journal[i]).val)
             IN /\ title = None <=> NoText(journal[i])
                /\ LinesOf(i)[1].line = "**** Empty" <=> title \in {None, Some("Empty")}
        /\ NoTextFieldRendered(i)

\* An entry without a text field and with two properties has been printed
\* whole, and an entry whose text starts with the line "Empty" has its
\* heading.
C9_Witness ==
    \E i, j \in 1..Len(journal) :
        /\ ~IsSome(journal[i].text)
        /\ Len(LinesOf(i)) = 6
        /\ LinesOf(i)[6] = Line("body", i, "")
        /\ LinesOf(i)[3].kind = "prop"
        /\ IsSome(journal[j].text)
        /\ Unwrap(journal[j].text) = "Empty\nmore"
        /\ LinesOf(j) # <<>>
        /\ LinesOf(j)[1] = Line("h4", j, "**** Empty")

(***************************************************************************)
(* Properties of Entry::body and Entry::properties.                        *)
(***************************************************************************)
\* The placeholders of a text: the matches <<first, last>> of PHOTO_REGEX
\* from index i on, left to right, none overlapping another.
RECURSIVE Placeholders(_, _)
Placeholders(s, i) ==
    LET k == FindFrom("PHOTO_REGEX", s, i)
    IN IF k = 0 THEN <<>>
       ELSE <<<<k, PHOTO_REGEX_MatchEnd(s, k)>>>>
            \o Placeholders(s, PHOTO_REGEX_MatchEnd(s, k) + 1)

\* The orderings of a photos array by ascending order_in_entry.
ByOrder(photos) ==
    {v \in [1..Len(photos) -> {photos[k] : k \in 1..Len(photos)}] :
        /\ \A p \in {photos[k] : k \in 1..Len(photos)} : \E k \in 1..Len(v) : v[k] = p
        /\ \A i, j \in 1..Len(v) : i < j => v[i].order_in_entry <= v[j].order_in_entry}

RECURSIVE SumTo(_, _)
SumTo(f, n) == IF n = 0 THEN 0 ELSE f[n] + SumTo(f, n - 1)

MinOf(a, b) == IF a < b THEN a ELSE b

BodyReturned == pc = "returned" /\ call.fn = "body" /\ ret.tag = "Ok"

\* C3: the k-th placeholder of the converted body is replaced by the link of
\* the photo that is k-th by order_in_entry, whatever the order of the
\* photos array: in the returned body that link stands where the k-th
\* placeholder stood (moved by what the earlier replacements added).
C3_PairedByOrderInEntry ==
    BodyReturned =>
        LET conv == ConvertedBody(call.pandoc.stdout)
            ph == Placeholders(conv, 1)
            photos == Unwrap(call.photos)
            n == MinOf(Len(ph), Len(photos))
            body == Unwrap(ret.val)
        IN \E v \in ByOrder(photos) :
             LET grow == [k \in 1..n |-> Len(Photo_link(v[k])) - (ph[k][2] - ph[k][1] + 1)]
             IN \A k \in 1..n :
                  StartsWithAt(body, ph[k][1] + SumTo(grow, k - 1), Photo_link(v[k]))

\* The text with its first n placeholders replaced by the links of v.
RECURSIVE Spliced(_, _, _, _, _)
Spliced(s, ph, v, n, k) ==
    IF k > n
    THEN SubSeq(s, (IF n = 0 THEN 1 ELSE ph[n][2] + 1), Len(s))
    ELSE SubSeq(s, (IF k = 1 THEN 1 ELSE ph[k - 1][2] + 1), ph[k][1] - 1)
         \o Photo_link(v[k]) \o Spliced(s, ph, v, n, k + 1)

\* C10: with P placeholders and N photos the leftmost min(P, N)
\* placeholders are replaced and nothing else changes: the other
\* placeholders stay as they are and are the only placeholders of the
\* returned body (no link is taken for a placeholder), and photos beyond the
\* P-th change nothing.
C10_LeftmostMinReplaced ==
    BodyReturned =>
        LET conv == ConvertedBody(call.pandoc.stdout)
            ph == Placeholders(conv, 1)
            photos == Unwrap(call.photos)
            n == MinOf(Len(ph), Len(photos))
            body == Unwrap(ret.val)
            left == Placeholders(body, 1)
        IN /\ \E v \in ByOrder(photos) : body = Spliced(conv, ph, v, n, 1)
           /\ Len(left) = Len(ph) - n
           /\ \A k \in 1..Len(left) :
                /\ SubSeq(body, left[k][1], left[k][2])
                     = SubSeq(conv, ph[n + k][1], ph[n + k][2])
                /\ Len(body) - left[k][2] = Len(conv) - ph[n + k][2]

PropertiesReturned == pc = "returned" /\ call.fn = "properties"

ExpectedKeys(entry) ==
    (IF IsSome(entry.weather) /\ IsSome(Unwrap(entry.weather).moon_phase_code)
     THEN {"Moon"} ELSE {})
    \cup (IF IsSome(entry.weather) /\ IsSome(Unwrap(entry.weather).conditions_description)
          THEN {"Weather"} ELSE {})
    \cup (IF IsSome(entry.music) THEN {"Music"} ELSE {})
    \cup (IF IsSome(entry.location) THEN {"Latitude", "Longitude", "Location"} ELSE {})

\* C8: the keys of the mapping properties() returns are Moon iff weather and
\* its moon_phase_code are present, Weather iff weather and its
\* conditions_description are present (the description as it is), Music iff
\* music is present (artist, " ", the em dash U+2014, " ", track), Latitude,
\* Longitude and Location (the place name) iff location is present, and no
\* other key.
C8_PropertiesKeySet ==
    (PropertiesReturned /\ ret.tag = "Ok") =>
        LET e == call.entry
            props == ret.val
        IN /\ DOMAIN props = ExpectedKeys(e)
           /\ "Weather" \in DOMAIN props =>
                props["Weather"] = Unwrap(Unwrap(e.weather).conditions_description)
           /\ "Music" \in DOMAIN props =>
                props["Music"] = Unwrap(e.music).artist \o " {U+2014} " \o Unwrap(e.music).track
           /\ "Location" \in DOMAIN props =>
                props["Location"] = Unwrap(e.location).place_name

====
